---- MODULE Spec2Model ----
(***************************************************************************)
(* picori, src/format/dol.rs: parsing of a `.dol` container.               *)
(*                                                                         *)
(* The byte source handed to from_bytes is a sequence of bytes.  The model *)
(* follows from_bytes through its phases (header, sections, table search,  *)
(* size correction, bss sections) and then serves section_by_address       *)
(* queries on the returned Dol.  A u32 value is the pair <<hi, lo>> of its  *)
(* two 16-bit halves (value hi * 2^16 + lo), so that the whole 32-bit      *)
(* range is there; the places where the code adds two u32 values keep the  *)
(* 32-bit width.                                                           *)
(***************************************************************************)
EXTENDS Integers, Sequences, FiniteSets, TLC

VARIABLES
    src,            \* the bytes behind the reader (Seq of 0..255)
    strictSeek,     \* whether the reader refuses a seek past its end
    pos,            \* the reader's position
    io,             \* the seeks and reads issued so far, in order
    pc,             \* from_bytes' position
    ret,            \* "pending", "Ok", "Err" or "panic"
    header,         \* Option<Header>: <<>> or <<h>>
    sections,       \* Vec<Section>
    rom_copy_info,  \* Option<Vec<RomCopyInfo>>: <<>> is None, <<v>> is Some(v)
    bss_init_info,  \* Option<Vec<BssInitInfo>>
    query,          \* the last address asked of section_by_address
    found           \* its answer

vars == <<src, strictSeek, pos, io, pc, ret, header, sections,
          rom_copy_info, bss_init_info, query, found>>

(***************************************************************************)
(* Bounds of the inputs.                                                   *)
(***************************************************************************)
\* at most this many of the text/data slots 1..17 (all but .init) are non-empty
MaxExtra == 2
\* at most this many records in a generated copy table
MaxRom == 3
\* at most this many records in a generated zero-fill table
MaxBss == 4

(***************************************************************************)
(* u32 and the Option type.                                                *)
(***************************************************************************)
Half == 256 * 256

\* the u32 with a value below 2^16
U(n) == <<0, n>>
Zero == <<0, 0>>
MaxU32 == <<Half - 1, Half - 1>>

Lt(a, b) == a[1] < b[1] \/ (a[1] = b[1] /\ a[2] < b[2])
Ge(a, b) == ~Lt(a, b)

\* the sum of two u32 values: its low 32 bits and whether it reached 2^32
Add(a, b) ==
    LET lo == a[2] + b[2]
        hi == a[1] + b[1] + lo \div Half
    IN  [val |-> <<hi % Half, lo % Half>>, carry |-> hi >= Half]

None == <<>>
Some(v) == <<v>>
IsSome(o) == Len(o) = 1
Unwrap(o) == o[1]

\* the wrapping sum of a build without overflow checks
WrapAdd(a, b) == Add(a, b).val

(***************************************************************************)
(* Sizes of the file format.                                               *)
(***************************************************************************)
NumText == 7
NumData == 11
SearchWindow == 512
RomRecord == 12
BssRecord == 8
BssAlign == 32

(***************************************************************************)
(* helper::ReadExtension::read_bu32 over a SliceReader: four bytes, most   *)
(* significant first.                                                      *)
(***************************************************************************)
read_bu32(b, at) ==
    <<b[at + 1] * 256 + b[at + 2], b[at + 3] * 256 + b[at + 4]>>

\* read_bu32_array::<N>: N consecutive big-endian words starting at `at`
read_bu32_array(b, at, n) == [i \in 1..n |-> read_bu32(b, at + 4 * (i - 1))]

\* helper::TakeLastN::take_last_n: the last min(n, len) elements
take_last_n(data, n) ==
    IF Len(data) <= n THEN data ELSE SubSeq(data, Len(data) - n + 1, Len(data))

\* helper::align_next: value rounded up to the next multiple of alignment
align_next(value, alignment) ==
    LET lo == ((value[2] + alignment - 1) \div alignment) * alignment
    IN  <<value[1] + lo \div Half, lo % Half>>

(***************************************************************************)
(* Iterator adaptors of the standard library, on sequences.                *)
(***************************************************************************)
SetMin(S) == CHOOSE m \in S : \A x \in S : m <= x

\* slice::chunks_exact(n) in place of windows(n): only the aligned runs
windows_aligned(b, n) == [i \in 1..(Len(b) \div n) |-> SubSeq(b, (i - 1) * n + 1, i * n)]

\* slice::windows(n): every run of n consecutive elements, none when shorter
windows(b, n) ==
    [i \in 1..(IF Len(b) >= n THEN Len(b) - n + 1 ELSE 0) |-> SubSeq(b, i, i + n - 1)]

\* Iterator::skip_while: drop the longest prefix whose elements satisfy the
\* predicate; p[i] is the predicate's value on s[i]
skip_while(s, p) ==
    LET keep == {i \in 1..Len(s) : ~p[i]}
    IN  IF keep = {} THEN <<>> ELSE SubSeq(s, SetMin(keep), Len(s))

\* step_by(n) that leaves out the first element
step_by_after_first(s, n) == [j \in 1..((Len(s) - 1) \div n) |-> s[j * n + 1]]

\* Iterator::step_by(n): the first element, then every n-th after it
step_by(s, n) == [j \in 1..((Len(s) + n - 1) \div n) |-> s[(j - 1) * n + 1]]

\* Iterator::take_while: the longest prefix whose elements satisfy the
\* predicate; p[i] is the predicate's value on s[i]
take_while(s, p) ==
    LET stop == {i \in 1..Len(s) : ~p[i]}
    IN  IF stop = {} THEN s ELSE SubSeq(s, 1, SetMin(stop) - 1)

(***************************************************************************)
(* RomCopyInfo::from_bytes and BssInitInfo::from_bytes: Ok(record) as      *)
(* <<record>>, Err as <<>> (a reader that runs out of bytes).              *)
(***************************************************************************)
RomCopyInfo_from_bytes(x) ==
    IF Len(x) < RomRecord THEN <<>>
    ELSE << [rom_address |-> read_bu32(x, 0),
             ram_address |-> read_bu32(x, 4),
             size        |-> read_bu32(x, 8)] >>

BssInitInfo_from_bytes(x) ==
    IF Len(x) < BssRecord THEN <<>>
    ELSE << [ram_address |-> read_bu32(x, 0),
             size        |-> read_bu32(x, 4)] >>

\* .filter(|x| x.is_ok()).map(|x| x.unwrap())
IsOk(r) == Len(r) = 1

filter_ok(s) ==
    LET oks == SelectSeq(s, IsOk)
    IN  [k \in 1..Len(oks) |-> oks[k][1]]

(***************************************************************************)
(* rom_copy_info_search and bss_init_info_search.                          *)
(***************************************************************************)
rom_copy_info_search(data, address) ==
    LET w       == windows(take_last_n(data, SearchWindow), RomRecord)
        decoded == filter_ok([i \in 1..Len(w) |-> RomCopyInfo_from_bytes(w[i])])
        NotAnchor(x) == x.rom_address # address \/ x.ram_address # address
        Live(x)      == x.rom_address # Zero
        skipped == skip_while(decoded, [i \in 1..Len(decoded) |-> NotAnchor(decoded[i])])
        stepped == step_by(skipped, RomRecord)
    IN  Some(take_while(stepped, [i \in 1..Len(stepped) |-> Live(stepped[i])]))

bss_init_info_search(data, address) ==
    LET w       == windows(take_last_n(data, SearchWindow), BssRecord)
        decoded == filter_ok([i \in 1..Len(w) |-> BssInitInfo_from_bytes(w[i])])
        NotAnchor(x) == x.ram_address # address
        Live(x)      == x.ram_address # Zero
        skipped == skip_while(decoded, [i \in 1..Len(decoded) |-> NotAnchor(decoded[i])])
        stepped == step_by(skipped, BssRecord)
    IN  Some(take_while(stepped, [i \in 1..Len(stepped) |-> Live(stepped[i])]))

(***************************************************************************)
(* section_name.  The match arms that panic return "panic".                *)
(***************************************************************************)
TextNames == <<".init", ".text", ".text.2", ".text.3", ".text.4", ".text.5", ".text.6">>
DataNames == <<"extab_", "extabindex_", ".ctors", ".dtors", ".rodata", ".data",
               ".sdata", ".sdata2", ".data8", ".data9", ".data10">>
BssNames  == <<".bss", ".sbss", ".sbss2">>

section_name(kind, index) ==
    CASE kind = "Text" -> IF index < Len(TextNames) THEN TextNames[index + 1] ELSE "panic"
      [] kind = "Data" -> IF index < Len(DataNames) THEN DataNames[index + 1] ELSE "panic"
      [] kind = "Bss"  -> IF index < Len(BssNames)  THEN BssNames[index + 1]  ELSE "panic"

(***************************************************************************)
(* The reader: Seek::seek(SeekFrom::Start(offset)) and read_exact.  A      *)
(* reader is [pos, io, ok]; every call is appended to io as                *)
(* <<"seek", offset, ok>> or <<"read", length, ok>>.                       *)
(***************************************************************************)
seek(r, offset) ==
    LET ok == ~(strictSeek /\ Lt(U(Len(src)), offset))
    IN  [pos |-> IF ok THEN offset ELSE r.pos,
         io  |-> Append(r.io, <<"seek", offset, ok>>),
         ok  |-> ok]

read_exact(r, n) ==
    LET ok == n = Zero \/ (r.pos[1] = 0 /\ n[1] = 0 /\ r.pos[2] + n[2] <= Len(src))
    IN  [pos |-> IF ok THEN WrapAdd(r.pos, n) ELSE r.pos,
         io  |-> Append(r.io, <<"read", n, ok>>),
         ok  |-> ok]

\* the bytes a successful read_exact of n bytes at position p stored.  The
\* buffer is set_len'd before it is filled; read_exact either fills all of
\* it or fails, and on failure Section::new drops it unread.
bytes_at(p, n) == IF n = Zero THEN <<>> ELSE SubSeq(src, p[2] + 1, p[2] + n[2])

(***************************************************************************)
(* Section::new: seek to the offset, read size bytes, name the section.    *)
(* The result is [r |-> reader, sec |-> Ok(section) or Err].               *)
(***************************************************************************)
Section_new(r, kind, index, offset, address, size, aligned_size) ==
    LET r1 == seek(r, offset)
        r2 == read_exact(r1, size)
    IN  IF ~r1.ok THEN [r |-> r1, sec |-> <<>>]
        ELSE IF ~r2.ok THEN [r |-> r2, sec |-> <<>>]
        ELSE [r   |-> r2,
              sec |-> << [kind         |-> kind,
                          name         |-> section_name(kind, index),
                          address      |-> address,
                          size         |-> size,
                          aligned_size |-> aligned_size,
                          data         |-> bytes_at(offset, size)] >>]

(***************************************************************************)
(* from_bytes, the header: nine reads in the order of the file layout.     *)
(***************************************************************************)
\* the lengths in bytes of the nine header fields, in reading order
HeaderReads ==
    <<4 * NumText, 4 * NumData, 4 * NumText, 4 * NumData, 4 * NumText, 4 * NumData,
      4, 4, 4>>

RECURSIVE read_fields(_, _)
read_fields(r, k) ==
    IF k > Len(HeaderReads) THEN r
    ELSE LET r1 == read_exact(r, U(HeaderReads[k]))
         IN  IF r1.ok THEN read_fields(r1, k + 1) ELSE r1

decode_header(b) ==
    [text_offset  |-> read_bu32_array(b, 0, NumText),
     data_offset  |-> read_bu32_array(b, 4 * NumText, NumData),
     text_address |-> read_bu32_array(b, 4 * (NumText + NumData), NumText),
     data_address |-> read_bu32_array(b, 4 * (2 * NumText + NumData), NumData),
     text_size    |-> read_bu32_array(b, 4 * (2 * NumText + 2 * NumData), NumText),
     data_size    |-> read_bu32_array(b, 4 * (3 * NumText + 2 * NumData), NumData),
     bss_address  |-> read_bu32(b, 4 * (3 * NumText + 3 * NumData)),
     bss_size     |-> read_bu32(b, 4 * (3 * NumText + 3 * NumData) + 4),
     entry_point  |-> read_bu32(b, 4 * (3 * NumText + 3 * NumData) + 8)]

(***************************************************************************)
(* from_bytes, the sections: chain!(text, data) zipped and enumerated,     *)
(* Section::new on each, size-0 sections filtered out, collected into a    *)
(* Result: the first Err ends the iteration.                               *)
(***************************************************************************)
triples(h) ==
    [i \in 1..(NumText + NumData) |->
        IF i <= NumText
        THEN [kind |-> "Text", index |-> i - 1, offset |-> h.text_offset[i],
              address |-> h.text_address[i], size |-> h.text_size[i]]
        ELSE [kind |-> "Data", index |-> i - NumText - 1,
              offset  |-> h.data_offset[i - NumText],
              address |-> h.data_address[i - NumText],
              size    |-> h.data_size[i - NumText]]]

\* collect_sections without the filter on size
RECURSIVE collect_sections_unfiltered(_, _, _, _)
collect_sections_unfiltered(t, k, r, acc) ==
    IF k > Len(t) THEN [r |-> r, ok |-> TRUE, sections |-> acc]
    ELSE LET n == Section_new(r, t[k].kind, t[k].index, t[k].offset,
                              t[k].address, t[k].size, t[k].size)
         IN  IF n.sec = <<>> THEN [r |-> n.r, ok |-> FALSE, sections |-> <<>>]
             ELSE collect_sections_unfiltered(t, k + 1, n.r, Append(acc, n.sec[1]))

\* collect_sections that drops a section that failed and goes on
RECURSIVE collect_sections_lenient(_, _, _, _)
collect_sections_lenient(t, k, r, acc) ==
    IF k > Len(t) THEN [r |-> r, ok |-> TRUE, sections |-> acc]
    ELSE LET n == Section_new(r, t[k].kind, t[k].index, t[k].offset,
                              t[k].address, t[k].size, t[k].size)
         IN  IF n.sec = <<>> THEN collect_sections_lenient(t, k + 1, n.r, acc)
             ELSE collect_sections_lenient(t, k + 1, n.r,
                    IF n.sec[1].size # Zero THEN Append(acc, n.sec[1]) ELSE acc)

RECURSIVE collect_sections(_, _, _, _)
collect_sections(t, k, r, acc) ==
    IF k > Len(t) THEN [r |-> r, ok |-> TRUE, sections |-> acc]
    ELSE LET n == Section_new(r, t[k].kind, t[k].index, t[k].offset,
                              t[k].address, t[k].size, t[k].size)
         IN  IF n.sec = <<>> THEN [r |-> n.r, ok |-> FALSE, sections |-> <<>>]
             ELSE collect_sections(t, k + 1, n.r,
                    IF n.sec[1].size # Zero THEN Append(acc, n.sec[1]) ELSE acc)

(***************************************************************************)
(* from_bytes, the tables: the first section named ".init" is searched.    *)
(***************************************************************************)
\* find_init taking the first section whatever its name
find_init_first(secs) == IF secs = <<>> THEN None ELSE Some(secs[1])

find_init(secs) ==
    LET hit == {i \in 1..Len(secs) : secs[i].name = ".init"}
    IN  IF hit = {} THEN None ELSE Some(secs[SetMin(hit)])

search_rom(secs) ==
    LET init == find_init(secs)
    IN  IF IsSome(init)
        THEN rom_copy_info_search(Unwrap(init).data, Unwrap(init).address)
        ELSE None

search_bss(secs, bss_address) ==
    LET init == find_init(secs)
    IN  IF IsSome(init)
        THEN bss_init_info_search(Unwrap(init).data, bss_address)
        ELSE None

(***************************************************************************)
(* from_bytes, the size correction: the size of the first entry of the     *)
(* copy table whose rom_address is the section's address, if any.          *)
(***************************************************************************)
\* corrected_size taking the last matching entry
corrected_size_last(rci, sec) ==
    IF ~IsSome(rci) THEN sec.size
    ELSE LET v   == Unwrap(rci)
             hit == {i \in 1..Len(v) : v[i].rom_address = sec.address}
         IN  IF hit = {} THEN sec.size
             ELSE v[CHOOSE m \in hit : \A x \in hit : x <= m].size

corrected_size(rci, sec) ==
    IF ~IsSome(rci) THEN sec.size
    ELSE LET v   == Unwrap(rci)
             hit == {i \in 1..Len(v) : v[i].rom_address = sec.address}
         IN  IF hit = {} THEN sec.size ELSE v[SetMin(hit)].size

correct_sizes(rci, secs) ==
    [i \in 1..Len(secs) |-> [secs[i] EXCEPT !.size = corrected_size(rci, secs[i])]]

(***************************************************************************)
(* from_bytes, the bss sections: one per entry of the zero-fill table, or  *)
(* one from the header when there is no table.                             *)
(***************************************************************************)
bss_from_table(v) ==
    [i \in 1..Len(v) |->
        [kind         |-> "Bss",
         name         |-> section_name("Bss", i - 1),
         address      |-> v[i].ram_address,
         size         |-> v[i].size,
         aligned_size |-> align_next(v[i].size, BssAlign),
         data         |-> <<>>]]

bss_from_header(h) ==
    << [kind         |-> "Bss",
        name         |-> section_name("Bss", 0),
        address      |-> h.bss_address,
        size         |-> h.bss_size,
        aligned_size |-> h.bss_size,
        data         |-> <<>>] >>

\* bss_sections that adds the header's section to those of the table
bss_sections_mixed(bii, h) ==
    IF IsSome(bii) THEN bss_from_table(Unwrap(bii)) \o bss_from_header(h)
    ELSE bss_from_header(h)

bss_sections(bii, h) ==
    IF IsSome(bii) THEN bss_from_table(Unwrap(bii)) ELSE bss_from_header(h)

\* section_name panicked while the bss sections were built
bss_panics(b) == \E i \in 1..Len(b) : b[i].name = "panic"

(***************************************************************************)
(* Dol::section_by_address: find the first x with                          *)
(*     address >= x.address && address < x.address + x.size.               *)
(* The u32 sum panics when it overflows in a build with overflow checks    *)
(* and wraps in one without; `checked` says which build it is.  The sum is *)
(* evaluated only when the first comparison holds.                         *)
(***************************************************************************)
RECURSIVE find_by_address(_, _, _, _)
find_by_address(secs, address, k, checked) ==
    IF k > Len(secs) THEN <<"None", 0>>
    ELSE LET x == secs[k]
         IN  IF Ge(address, x.address)
             THEN IF checked /\ Add(x.address, x.size).carry THEN <<"panic", 0>>
                  ELSE IF Lt(address, WrapAdd(x.address, x.size)) THEN <<"Some", k>>
                  ELSE find_by_address(secs, address, k + 1, checked)
             ELSE find_by_address(secs, address, k + 1, checked)

section_by_address(secs, address, checked) == find_by_address(secs, address, 1, checked)

(***************************************************************************)
(* The inputs: `.dol` files built from a description, written the way the  *)
(* format lays them out (big-endian words, the header first, the section   *)
(* data after it).                                                         *)
(***************************************************************************)
Enc32(v) == <<v[1] \div 256, v[1] % 256, v[2] \div 256, v[2] % 256>>

RECURSIVE EncWords(_)
EncWords(ws) == IF ws = <<>> THEN <<>> ELSE Enc32(Head(ws)) \o EncWords(Tail(ws))

Fill(n, b) == [i \in 1..n |-> b]

\* slots 1..18: 1 is text 0 (.init), 2..7 are text 1..6, 8..18 are data 0..10
Slots == 1..(NumText + NumData)
ExtraSlots == Slots \ {1}

\* 0x80003100 and 0x01010101 (every byte the same: anchors at any alignment)
Init1 == <<32768, 12544>>
Init2 == <<257, 257>>
\* 0x80400000 and 0x01010101
Bss1 == <<32832, 0>>
Bss2 == <<257, 257>>

\* addressing of the sections other than .init:
\* 1: adjacent 4-byte sections from 0x80004000; 2: all at 0xFFFFFFFE
ExtraAddr(scheme, s) == IF scheme = 1 THEN <<32768, 16384 + 4 * s>> ELSE <<65535, 65534>>
ExtraData(s) == <<s, s, s, s>>

\* the i-th record of a generated copy table for init address a
RomEntry(a, i) ==
    CASE i = 1 -> <<a, a, U(20)>>
      [] i = 2 -> <<ExtraAddr(1, 2), ExtraAddr(1, 2), Zero>>
      [] i = 3 -> <<ExtraAddr(1, 2), ExtraAddr(1, 2), U(3)>>
      [] OTHER -> <<ExtraAddr(1, 13), ExtraAddr(1, 13), U(2)>>

\* the i-th record of a generated zero-fill table for zero-fill address b
BssEntry(b, i) == <<WrapAdd(b, U(256 * (i - 1))), IF i = 2 THEN Zero ELSE U(30 + i)>>

RECURSIVE RomTable(_, _, _)
RomTable(a, i, n) == IF i > n THEN <<>> ELSE RomEntry(a, i) \o RomTable(a, i + 1, n)

RECURSIVE BssTable(_, _, _)
BssTable(b, i, n) == IF i > n THEN <<>> ELSE BssEntry(b, i) \o BssTable(b, i + 1, n)

\* the data of an init section: filler, copy table, zero-fill table, filler
InitData(p) ==
    Fill(p.pre, p.fill)
    \o EncWords(RomTable(p.A, 1, p.nRom))
    \o (IF p.romSent THEN EncWords(<<Zero, Zero, Zero>>) ELSE <<>>)
    \o EncWords(BssTable(p.B, 1, p.nBss))
    \o (IF p.bssSent THEN EncWords(<<Zero, Zero>>) ELSE <<>>)
    \o Fill(p.post, p.fill)

HeaderLen == 4 * (3 * NumText + 3 * NumData + 3)

\* the file of an input description
\*   init: <<>> or <<data>>; A: address of .init; extras: the other non-empty slots
\*   scheme: their addressing; B, bsz: the header's zero-fill address and size
\*   zoff: the offset written in the empty slots; keep: how much of the file exists
\*   big: "size" declares 0xFFFFFFFF bytes for slot 2, "offset" puts it at 0xFFFFFFFF
BuildFile(inp) ==
    LET initLen == IF inp.init = <<>> THEN 0 ELSE Len(inp.init[1])
        present(s) == IF s = 1 THEN inp.init # <<>> ELSE s \in inp.extras
        before(s) == Cardinality({e \in inp.extras : e < s})
        off(s)  == IF ~present(s) THEN inp.zoff
                   ELSE IF s = 2 /\ inp.big = "offset" THEN MaxU32
                   ELSE IF s = 1 THEN U(HeaderLen)
                   ELSE U(HeaderLen + initLen + 4 * before(s))
        addr(s) == IF s = 1 THEN inp.A ELSE ExtraAddr(inp.scheme, s)
        size(s) == IF ~present(s) THEN Zero
                   ELSE IF s = 2 /\ inp.big = "size" THEN MaxU32
                   ELSE IF s = 1 THEN U(initLen) ELSE U(4)
        text(f(_)) == [i \in 1..NumText |-> f(i)]
        data(f(_)) == [i \in 1..NumData |-> f(NumText + i)]
        words == text(off) \o data(off) \o text(addr) \o data(addr)
                 \o text(size) \o data(size) \o <<inp.B, inp.bsz, inp.A>>
        RECURSIVE body(_)
        body(s) == IF s > NumText + NumData THEN <<>>
                   ELSE (IF s \in inp.extras THEN ExtraData(s) ELSE <<>>) \o body(s + 1)
        full == EncWords(words)
                \o (IF inp.init = <<>> THEN <<>> ELSE inp.init[1])
                \o body(2)
        kept == CASE inp.keep = "all"          -> Len(full)
                  [] inp.keep = "less1"        -> Len(full) - 1
                  [] inp.keep = "header"       -> HeaderLen
                  [] inp.keep = "header_less1" -> HeaderLen - 1
                  [] OTHER                     -> 0
    IN  SubSeq(full, 1, kept)

\* one copy-table record and one zero-fill record, each with its sentinel
SimpleTable(a, b) ==
    [A |-> a, B |-> b, nRom |-> 1, romSent |-> TRUE, nBss |-> 1, bssSent |-> TRUE,
     pre |-> 0, post |-> 0, fill |-> 0]

\* section layouts: which slots are non-empty
LayoutInputs ==
    {[init |-> i, A |-> Init1, extras |-> e, scheme |-> sc,
      B |-> Bss1, bsz |-> U(576), zoff |-> Zero, keep |-> "all", strict |-> FALSE, big |-> "none"] :
        i \in {<<>>, <<InitData(SimpleTable(Init1, Bss1))>>},
        e \in {x \in SUBSET ExtraSlots : Cardinality(x) <= MaxExtra},
        sc \in 1..2}

\* contents of the init section
TableParams ==
    {[A |-> ab[1], B |-> ab[2], fill |-> ab[3], nRom |-> nr, romSent |-> rs,
      nBss |-> nb, bssSent |-> bs, pre |-> pr, post |-> po] :
        ab \in {<<Init1, Bss1, 0>>, <<Init2, Bss1, 1>>,
                <<Init1, Bss2, 1>>, <<Init2, Bss2, 1>>},
        nr \in 0..MaxRom, rs \in BOOLEAN, nb \in 0..MaxBss, bs \in BOOLEAN,
        pr \in {0, 3}, po \in {0, 5}}

\* tables that lie partly or wholly before the last 512 bytes, and tables
\* whose anchor address is 0
EdgeParams ==
    {[A |-> ab[1], B |-> ab[2], fill |-> ab[3], nRom |-> 1, romSent |-> TRUE,
      nBss |-> nb, bssSent |-> TRUE, pre |-> 0, post |-> po] :
        ab \in {<<Init1, Bss1, 0>>, <<Init2, Bss1, 1>>},
        nb \in 1..2, po \in {496, 512}}
    \cup {SimpleTable(Zero, Bss1), SimpleTable(Init1, Zero)}

TableInputs ==
    {[init |-> <<InitData(p)>>, A |-> p.A, extras |-> {2, 13}, scheme |-> 1,
      B |-> p.B, bsz |-> U(576), zoff |-> Zero, keep |-> "all", strict |-> FALSE, big |-> "none"] :
        p \in TableParams \cup EdgeParams}

\* short sources, sources that refuse a seek past their end, and a zero-fill
\* region that ends past 2^32 (0xFFFFFF00 + 0x200)
IoInputs ==
    {[init |-> i, A |-> Init1, extras |-> e, scheme |-> 1,
      B |-> b[1], bsz |-> b[2], zoff |-> z, keep |-> k, strict |-> st, big |-> "none"] :
        i \in {<<>>, <<InitData(SimpleTable(Init1, Bss1))>>},
        e \in {{}, {2}, {18}, {2, 18}},
        b \in {<<Bss1, U(576)>>, <<<<65535, 65280>>, U(512)>>},
        z \in {Zero, MaxU32},
        k \in {"all", "less1", "header", "header_less1", "empty"},
        st \in BOOLEAN}

\* a whole file whose header declares for text 1 more bytes than any source
\* holds, or an offset far past the end
OversizeInputs ==
    {[init |-> i, A |-> Init1, extras |-> e, scheme |-> 1,
      B |-> Bss1, bsz |-> U(576), zoff |-> Zero, keep |-> "all", strict |-> st,
      big |-> g] :
        i \in {<<>>, <<InitData(SimpleTable(Init1, Bss1))>>},
        e \in {{2}, {2, 18}},
        g \in {"size", "offset"},
        st \in BOOLEAN}

Inputs == LayoutInputs \cup TableInputs \cup IoInputs \cup OversizeInputs

(***************************************************************************)
(* The state machine.                                                      *)
(***************************************************************************)
Init ==
    \E inp \in Inputs :
        /\ src = BuildFile(inp)
        /\ strictSeek = inp.strict
        /\ pos = Zero
        /\ io = <<>>
        /\ pc = "header"
        /\ ret = "pending"
        /\ header = None
        /\ sections = <<>>
        /\ rom_copy_info = None
        /\ bss_init_info = None
        /\ query = Zero
        /\ found = <<"None", 0>>

\* from_bytes returns Err or panics: nothing of the parse is handed out
Abandon(r, how) ==
    /\ pos' = r.pos
    /\ io' = r.io
    /\ pc' = "returned"
    /\ ret' = how
    /\ header' = None
    /\ sections' = <<>>
    /\ rom_copy_info' = None
    /\ bss_init_info' = None

ParseHeader ==
    /\ pc = "header"
    /\ LET r == read_fields([pos |-> pos, io |-> io, ok |-> TRUE], 1)
       IN  IF r.ok
           THEN /\ header' = Some(decode_header(src))
                /\ pos' = r.pos
                /\ io' = r.io
                /\ pc' = "sections"
                /\ UNCHANGED <<ret, sections, rom_copy_info, bss_init_info>>
           ELSE Abandon(r, "Err")
    /\ UNCHANGED <<src, strictSeek, query, found>>

BuildSections ==
    /\ pc = "sections"
    /\ LET c == collect_sections(triples(Unwrap(header)), 1,
                                 [pos |-> pos, io |-> io, ok |-> TRUE], <<>>)
       IN  IF c.ok
           THEN /\ sections' = c.sections
                /\ pos' = c.r.pos
                /\ io' = c.r.io
                /\ pc' = "tables"
                /\ UNCHANGED <<ret, header, rom_copy_info, bss_init_info>>
           ELSE Abandon(c.r, "Err")
    /\ UNCHANGED <<src, strictSeek, query, found>>

SearchTables ==
    /\ pc = "tables"
    /\ rom_copy_info' = search_rom(sections)
    /\ bss_init_info' = search_bss(sections, Unwrap(header).bss_address)
    /\ pc' = "correct"
    /\ UNCHANGED <<src, strictSeek, pos, io, ret, header, sections, query, found>>

CorrectSizes ==
    /\ pc = "correct"
    /\ sections' = correct_sizes(rom_copy_info, sections)
    /\ pc' = "bss"
    /\ UNCHANGED <<src, strictSeek, pos, io, ret, header, rom_copy_info,
                   bss_init_info, query, found>>

BuildBss ==
    /\ pc = "bss"
    /\ LET b == bss_sections(bss_init_info, Unwrap(header))
       IN  IF bss_panics(b)
           THEN Abandon([pos |-> pos, io |-> io], "panic")
           ELSE /\ sections' = sections \o b
                /\ pc' = "returned"
                /\ ret' = "Ok"
                /\ UNCHANGED <<pos, io, header, rom_copy_info, bss_init_info>>
    /\ UNCHANGED <<src, strictSeek, query, found>>

\* the addresses asked: the first, the last and the one past the last of
\* every section, and the ends of the address space
Queries(secs) ==
    UNION {{secs[i].address,
            WrapAdd(WrapAdd(secs[i].address, secs[i].size), MaxU32),
            WrapAdd(secs[i].address, secs[i].size)} : i \in 1..Len(secs)}
    \cup {Zero, MaxU32}

\* one call of section_by_address on the Dol that from_bytes returned
Lookup ==
    /\ pc = "returned"
    /\ ret = "Ok"
    /\ \E a \in Queries(sections), checked \in BOOLEAN :
        /\ query' = a
        /\ found' = section_by_address(sections, a, checked)
    /\ pc' = "asked"
    /\ UNCHANGED <<src, strictSeek, pos, io, ret, header, sections,
                   rom_copy_info, bss_init_info>>

Next ==
    \/ ParseHeader
    \/ BuildSections
    \/ SearchTables
    \/ CorrectSizes
    \/ BuildBss
    \/ Lookup

Spec == Init /\ [][Next]_vars

(***************************************************************************)
(* What the claims are stated with.                                        *)
(***************************************************************************)
Returned == pc \in {"returned", "asked"}
Succeeded == Returned /\ ret = "Ok"

\* the names of the 18 slots, text 0..6 then data 0..10
SlotNames ==
    <<".init", ".text", ".text.2", ".text.3", ".text.4", ".text.5", ".text.6",
      "extab_", "extabindex_", ".ctors", ".dtors", ".rodata", ".data", ".sdata",
      ".sdata2", ".data8", ".data9", ".data10">>

\* the 18 declared triples of a header, text[0..6] then data[0..10]
Declared(h) ==
    [s \in 1..18 |->
        [kind    |-> IF s <= 7 THEN "Text" ELSE "Data",
         name    |-> SlotNames[s],
         offset  |-> (h.text_offset \o h.data_offset)[s],
         address |-> (h.text_address \o h.data_address)[s],
         size    |-> (h.text_size \o h.data_size)[s]]]

NonEmpty(d) == d.size # Zero
DeclaredNonEmpty(h) == SelectSeq(Declared(h), NonEmpty)

NotBss(s) == s.kind # "Bss"
IsBss(s) == s.kind = "Bss"
NonBss(secs) == SelectSeq(secs, NotBss)
BssOf(secs) == SelectSeq(secs, IsBss)

\* the bytes of the source from offset o (a u32 below 2^16), n of them
SrcBytes(o, n) == [i \in 1..n[2] |-> src[o[2] + i]]

(***************************************************************************)
(* C1: after a successful from_bytes the sections that are not Bss are     *)
(* exactly the declared triples of non-zero size, in the order text 0..6   *)
(* then data 0..10, each with the name of its kind and index, its declared *)
(* address, and the bytes the source holds at its offset.                  *)
(***************************************************************************)
C1_NonBssAreDeclaredNonEmpty ==
    Succeeded =>
        LET d  == DeclaredNonEmpty(Unwrap(header))
            nb == NonBss(sections)
        IN  /\ Len(nb) = Len(d)
            /\ \A i \in 1..Len(nb) :
                /\ nb[i].kind = d[i].kind
                /\ nb[i].name = d[i].name
                /\ nb[i].address = d[i].address
                /\ nb[i].aligned_size = d[i].size
                /\ nb[i].data = SrcBytes(d[i].offset, d[i].size)

\* a parse that succeeded with .init and .data present and text 1 empty
C1_Witness ==
    /\ Succeeded
    /\ Unwrap(header).text_size[1] # Zero
    /\ Unwrap(header).text_size[2] = Zero
    /\ Unwrap(header).data_size[6] # Zero
    /\ \E i \in 1..Len(sections) : sections[i].name = ".data"

(***************************************************************************)
(* C3: with no init section declared, a successful from_bytes reports      *)
(* neither table, leaves every text/data section its declared size, and    *)
(* ends the list with the one Bss section ".bss" made of the header's      *)
(* zero-fill address and size.                                             *)
(***************************************************************************)
C3_NoInitFallsBackToHeader ==
    (Succeeded /\ Unwrap(header).text_size[1] = Zero) =>
        LET h  == Unwrap(header)
            d  == DeclaredNonEmpty(h)
            nb == NonBss(sections)
            b  == BssOf(sections)
        IN  /\ rom_copy_info = None
            /\ bss_init_info = None
            /\ Len(nb) = Len(d)
            /\ \A i \in 1..Len(nb) : nb[i].size = d[i].size
            /\ Len(b) = 1
            /\ b[1] = [kind |-> "Bss", name |-> ".bss", address |-> h.bss_address,
                       size |-> h.bss_size, aligned_size |-> h.bss_size,
                       data |-> <<>>]

\* a successful parse of a file without init section and with two sections
C3_Witness ==
    /\ Succeeded
    /\ Unwrap(header).text_size[1] = Zero
    /\ Len(sections) = 3

(***************************************************************************)
(* The two-phase reading of the tables: the window, the anchor, the walk.  *)
(***************************************************************************)
\* the last min(512, len) bytes of the init section's data
LastWindow(data) ==
    LET n == Len(data)
        m == IF n < 512 THEN n ELSE 512
    IN  [i \in 1..m |-> data[n - m + i]]

\* the big-endian word at byte offset k of b
Word(b, k) == <<256 * b[k + 1] + b[k + 2], 256 * b[k + 3] + b[k + 4]>>

RomAt(b, k) ==
    [rom_address |-> Word(b, k), ram_address |-> Word(b, k + 4), size |-> Word(b, k + 8)]
BssAt(b, k) == [ram_address |-> Word(b, k), size |-> Word(b, k + 4)]

\* the offsets of the records that meet the anchor condition
RomAnchors(b, a) ==
    {k \in 0..(Len(b) - 12) : Word(b, k) = a /\ Word(b, k + 4) = a}
BssAnchors(b, a) == {k \in 0..(Len(b) - 8) : Word(b, k) = a}

\* the records from offset k on, one every stride, up to the sentinel or
\* the first record that is not wholly inside b
RECURSIVE RomWalk(_, _)
RomWalk(b, k) ==
    IF k + 12 > Len(b) \/ Word(b, k) = Zero THEN <<>>
    ELSE <<RomAt(b, k)>> \o RomWalk(b, k + 12)

RECURSIVE BssWalk(_, _)
BssWalk(b, k) ==
    IF k + 8 > Len(b) \/ Word(b, k) = Zero THEN <<>>
    ELSE <<BssAt(b, k)>> \o BssWalk(b, k + 8)

\* the init section of the section list (present iff text 0 is not empty)
HasInit == header # None /\ Unwrap(header).text_size[1] # Zero /\ sections # <<>>
InitSection == sections[1]
InitWindow == LastWindow(InitSection.data)

(***************************************************************************)
(* C2: an init section is present and no offset of its last 512 bytes      *)
(* meets the anchor condition: the table is reported as None, and for the  *)
(* zero-fill table the result holds exactly the one Bss section of the     *)
(* header.                                                                 *)
(***************************************************************************)
C2_NoAnchorIsNone ==
    (Succeeded /\ HasInit) =>
        LET h == Unwrap(header)
        IN  /\ RomAnchors(InitWindow, InitSection.address) = {}
                => rom_copy_info = None
            /\ BssAnchors(InitWindow, h.bss_address) = {}
                => /\ bss_init_info = None
                   /\ BssOf(sections) =
                        << [kind |-> "Bss", name |-> ".bss",
                            address |-> h.bss_address, size |-> h.bss_size,
                            aligned_size |-> h.bss_size, data |-> <<>>] >>

(***************************************************************************)
(* C4: the tables that the search returns are those of the two-phase       *)
(* reading: from the smallest offset of the last 512 bytes that meets the  *)
(* anchor condition, one record every 12 (8) bytes, up to the first with   *)
(* on-disk (in-memory) address 0 or the end of the bytes.                  *)
(***************************************************************************)
C4_SearchIsTwoPhase ==
    (pc = "correct" /\ HasInit) =>
        LET b  == InitWindow
            ra == RomAnchors(b, InitSection.address)
            ba == BssAnchors(b, Unwrap(header).bss_address)
        IN  /\ ra # {} => rom_copy_info = Some(RomWalk(b, SetMin(ra)))
            /\ ba # {} => bss_init_info = Some(BssWalk(b, SetMin(ba)))

\* a copy table of two records or more found from an anchor that is not on
\* a 4-byte boundary, in an init section longer than its last records
C4_Witness ==
    /\ pc = "correct"
    /\ HasInit
    /\ RomAnchors(InitWindow, InitSection.address) # {}
    /\ SetMin(RomAnchors(InitWindow, InitSection.address)) % 4 # 0
    /\ Len(Unwrap(rom_copy_info)) >= 2
    /\ BssAnchors(InitWindow, Unwrap(header).bss_address) # {}
    /\ Len(Unwrap(bss_init_info)) >= 2

\* the same in an init section longer than 512 bytes
C4_WitnessLong ==
    /\ pc = "correct"
    /\ HasInit
    /\ Len(InitSection.data) > 512
    /\ BssAnchors(InitWindow, Unwrap(header).bss_address) # {}
    /\ Len(Unwrap(bss_init_info)) >= 1

(***************************************************************************)
(* C5: an anchor is found at offset k and the record at k + 12 has on-disk *)
(* address 0.  As claimed: the recovered copy table has length zero.       *)
(***************************************************************************)
SentinelAfterAnchor ==
    /\ pc = "correct"
    /\ HasInit
    /\ LET a == RomAnchors(InitWindow, InitSection.address)
       IN  /\ a # {}
           /\ SetMin(a) + 24 <= Len(InitWindow)
           /\ Word(InitWindow, SetMin(a) + 12) = Zero

C5_SentinelAfterAnchorIsEmpty ==
    SentinelAfterAnchor => rom_copy_info = Some(<<>>)

(***************************************************************************)
(* C5, amended: the recovered copy table is then the anchor record alone   *)
(* when the init address is not 0, and is empty when it is 0 (the anchor   *)
(* record is then the sentinel); the table is reported as recovered and    *)
(* the search raises no error.                                             *)
(***************************************************************************)
C5_SentinelAfterAnchorKeepsAnchor ==
    SentinelAfterAnchor =>
        LET k == SetMin(RomAnchors(InitWindow, InitSection.address))
        IN  /\ ret = "pending"
            /\ rom_copy_info =
                 IF InitSection.address = Zero THEN Some(<<>>)
                 ELSE Some(<<RomAt(InitWindow, k)>>)

C5_Witness ==
    /\ SentinelAfterAnchor
    /\ InitSection.address # Zero
    /\ Len(Unwrap(rom_copy_info)) = 1

\* the same with init address 0
C5_WitnessZero ==
    /\ SentinelAfterAnchor
    /\ InitSection.address = Zero
    /\ rom_copy_info = Some(<<>>)

(***************************************************************************)
(* C6: after a successful from_bytes every text/data section has the size  *)
(* of the first copy-table entry whose on-disk address is its address, or  *)
(* its declared size when there is no such entry or no table; its kind,    *)
(* name, address, aligned_size and data are those of the declared triple.  *)
(***************************************************************************)
\* entry j of table v is the first one with on-disk address a
FirstMatch(v, j, a) ==
    /\ v[j].rom_address = a
    /\ \A m \in 1..(j - 1) : v[m].rom_address # a

C6_OnlyMatchingSizesChange ==
    Succeeded =>
        LET d  == DeclaredNonEmpty(Unwrap(header))
            nb == NonBss(sections)
            v  == IF rom_copy_info = None THEN <<>> ELSE Unwrap(rom_copy_info)
        IN  /\ Len(nb) = Len(d)
            /\ \A i \in 1..Len(nb) :
                /\ \A j \in 1..Len(v) :
                      FirstMatch(v, j, nb[i].address) => nb[i].size = v[j].size
                /\ (\A j \in 1..Len(v) : v[j].rom_address # nb[i].address)
                      => nb[i].size = d[i].size
                /\ nb[i].kind = d[i].kind
                /\ nb[i].name = d[i].name
                /\ nb[i].address = d[i].address
                /\ nb[i].aligned_size = d[i].size
                /\ Len(nb[i].data) = d[i].size[2]
                /\ nb[i].data = SrcBytes(d[i].offset, d[i].size)

\* a section with two matching entries of different sizes took the first,
\* and another section without a matching entry kept its declared size
C6_Witness ==
    /\ Succeeded
    /\ IsSome(rom_copy_info)
    /\ LET v  == Unwrap(rom_copy_info)
           nb == NonBss(sections)
       IN  /\ \E i \in 1..Len(nb), j, m \in 1..Len(v) :
                /\ j < m
                /\ FirstMatch(v, j, nb[i].address)
                /\ v[m].rom_address = nb[i].address
                /\ v[m].size # v[j].size
                /\ nb[i].size = v[j].size
                /\ nb[i].size # nb[i].aligned_size
           /\ \E i \in 1..Len(nb) :
                /\ \A j \in 1..Len(v) : v[j].rom_address # nb[i].address
                /\ nb[i].size = nb[i].aligned_size

(***************************************************************************)
(* C7: a recovered zero-fill table of n <= 3 entries gives exactly n Bss   *)
(* sections at the end of the list, after every text and data section,     *)
(* the i-th named ".bss", ".sbss", ".sbss2", with the entry's address and  *)
(* byte count, aligned_size the byte count rounded up to a multiple of 32  *)
(* and no data; the header's zero-fill region adds no section.             *)
(***************************************************************************)
\* the least multiple of 32 that is not below v
RoundedUp32(v) ==
    IF v[2] % 32 = 0 THEN v
    ELSE LET lo == v[2] + (32 - (v[2] % 32))
         IN  IF lo = Half THEN <<v[1] + 1, 0>> ELSE <<v[1], lo>>

C7_BssSectionsAreTheTable ==
    (Succeeded /\ IsSome(bss_init_info) /\ Len(Unwrap(bss_init_info)) <= 3) =>
        LET v  == Unwrap(bss_init_info)
            nb == NonBss(sections)
            names == <<".bss", ".sbss", ".sbss2">>
        IN  /\ Len(sections) = Len(nb) + Len(v)
            /\ \A i \in 1..Len(nb) : sections[i] = nb[i]
            /\ \A i \in 1..Len(v) :
                sections[Len(nb) + i] =
                    [kind |-> "Bss", name |-> names[i],
                     address |-> v[i].ram_address, size |-> v[i].size,
                     aligned_size |-> RoundedUp32(v[i].size), data |-> <<>>]

\* three entries recovered, one of them with a size that is no multiple of
\* 32, none of them the header's zero-fill size
C7_Witness ==
    /\ Succeeded
    /\ IsSome(bss_init_info)
    /\ Len(Unwrap(bss_init_info)) = 3
    /\ Len(BssOf(sections)) = 3
    /\ \E i \in 1..3 : BssOf(sections)[i].size # BssOf(sections)[i].aligned_size
    /\ \A i \in 1..3 : BssOf(sections)[i].size # Unwrap(header).bss_size

(***************************************************************************)
(* C8: when the recovered zero-fill table has more than 3 entries,         *)
(* from_bytes returns an error value: it does not panic.                   *)
(***************************************************************************)
C8_TooManyEntriesIsAnError ==
    [][(pc = "bss" /\ IsSome(bss_init_info) /\ Len(Unwrap(bss_init_info)) > 3)
          => ret' = "Err"]_vars

(***************************************************************************)
(* C9: a source shorter than the header, or a declared section of non-zero *)
(* size that ends past the end of the source, makes from_bytes return Err  *)
(* with nothing of the parse handed out; the failed call is the last call  *)
(* made on the source, and it comes no later than the first such section.  *)
(***************************************************************************)
\* the header as the file layout gives it: offsets 0x00, 0x1C, 0x90, 0xAC
FileOffset(s) == Word(src, IF s <= 7 THEN 4 * (s - 1) ELSE 28 + 4 * (s - 8))
FileSize(s) == Word(src, IF s <= 7 THEN 144 + 4 * (s - 1) ELSE 172 + 4 * (s - 8))

\* the slots whose data is not wholly in the source
ShortSlots ==
    {s \in 1..18 :
        /\ FileSize(s) # Zero
        /\ \/ Add(FileOffset(s), FileSize(s)).carry
           \/ Lt(U(Len(src)), Add(FileOffset(s), FileSize(s)).val)}

Seeks(log) == Cardinality({j \in 1..Len(log) : log[j][1] = "seek"})

NothingReturned ==
    /\ ret = "Err"
    /\ header = None
    /\ sections = <<>>
    /\ rom_copy_info = None
    /\ bss_init_info = None

C9_ShortSourceIsAnError ==
    /\ (pc # "header" /\ Len(src) < 228) => NothingReturned
    /\ (pc \notin {"header", "sections"} /\ Len(src) >= 228 /\ ShortSlots # {})
          => /\ NothingReturned
             /\ Seeks(io) <= SetMin(ShortSlots)
    /\ ret = "Err"
          => /\ io # <<>>
             /\ io[Len(io)][3] = FALSE
             /\ \A j \in 1..(Len(io) - 1) : io[j][3] = TRUE

\* the second section read is the one that is short
C9_Witness ==
    /\ ret = "Err"
    /\ Len(src) >= 228
    /\ ShortSlots # {}
    /\ SetMin(ShortSlots) > 1
    /\ FileSize(1) # Zero
    /\ Seeks(io) = SetMin(ShortSlots)
    /\ io[Len(io)][1] = "read"

\* a whole source and a header that declares 0xFFFFFFFF bytes for text 1
C9_WitnessOversize ==
    /\ ret = "Err"
    /\ Len(src) >= 228
    /\ FileSize(2) = MaxU32
    /\ ShortSlots = {2}
    /\ io[Len(io)] = <<"read", MaxU32, FALSE>>

(***************************************************************************)
(* C10: section_by_address(a) is the first section of the list with        *)
(* address <= a < address + size, the sum taken without wrapping, and None *)
(* when there is none.                                                     *)
(***************************************************************************)
\* a is in [address, address + size) of x, the sum not wrapped
InRange(a, x) ==
    /\ Ge(a, x.address)
    /\ Add(x.address, x.size).carry \/ Lt(a, Add(x.address, x.size).val)

C10_LookupIsHalfOpenRange ==
    pc = "asked" =>
        LET hits == {i \in 1..Len(sections) : InRange(query, sections[i])}
        IN  found = IF hits = {} THEN <<"None", 0>> ELSE <<"Some", SetMin(hits)>>

(***************************************************************************)
(* C11: a declared triple of size 0 causes no seek and no read: the seeks  *)
(* and reads after the header are those of the triples of non-zero size,   *)
(* and the offset of a triple of size 0 never makes from_bytes fail.       *)
(***************************************************************************)
NonEmptySlots == {s \in 1..18 : FileSize(s) # Zero}

\* the calls made on the source after the nine reads of the header
SectionIo == SubSeq(io, 10, Len(io))

\* every section was built: one seek and one read per non-empty triple
C11_IoOnlyForNonEmpty ==
    (pc = "tables") =>
        /\ Seeks(SectionIo) = Cardinality(NonEmptySlots)
        /\ \A j \in 1..Len(SectionIo) :
              /\ SectionIo[j][1] = "read" => SectionIo[j][2] # Zero
              /\ SectionIo[j][1] = "seek" =>
                    \E s \in NonEmptySlots : FileOffset(s) = SectionIo[j][2]

\* a parse of a whole header fails only on a triple of non-zero size
C11_EmptyOffsetNeverFails ==
    (ret = "Err" /\ Len(src) >= 228) =>
        \E s \in NonEmptySlots :
            \/ s \in ShortSlots
            \/ strictSeek /\ Lt(U(Len(src)), FileOffset(s))

C11_EmptySlotsCauseNoIo == C11_IoOnlyForNonEmpty /\ C11_EmptyOffsetNeverFails

====
